---- MODULE Spec2Model ----
(***************************************************************************)
(* A model of scripts/fetch_strava.py: the exertion scoring functions     *)
(* (compute_score_base, fit_score_scale, estimate_exertion), the record   *)
(* helpers (enrich_activity, slim, load_exertion_overrides) and the       *)
(* pipeline of main with its two exception handlers.                      *)
(*                                                                         *)
(* JSON values.  null (and an absent key read through dict.get) is the    *)
(* empty tuple; a number is an exact fraction <<n, d>> in lowest terms    *)
(* with d > 0; a text value is the one-element tuple <<"text">>.          *)
(* Python computes on IEEE doubles; the model computes on the exact       *)
(* fractions.  The one place where a double's last-bit error decides a    *)
(* result is round() on a value that is an exact decimal tie as a         *)
(* fraction (12.345, 1.785): the double lies just above or just below it, *)
(* so round() may return either neighbour.  halfUp is that direction, any *)
(* of the two for a run.                                                  *)
(***************************************************************************)
EXTENDS Integers, Sequences, FiniteSets, TLC

VARIABLE halfUp

Null == << >>

Text == <<"text">>

IsNumber(v) == Len(v) = 2

RECURSIVE GCD(_, _)
GCD(a, b) == IF b = 0 THEN a ELSE GCD(b, a % b)

Abs(n) == IF n < 0 THEN 0 - n ELSE n

\* n/d with the common divisor g taken out.
Reduced(n, d, g) == IF g = 0 THEN <<0, 1>> ELSE <<n \div g, d \div g>>

\* The fraction n/d (d > 0) in lowest terms.
Frac(n, d) == Reduced(n, d, GCD(Abs(n), d))

R(n) == <<n, 1>>

\* a * b, the common divisors g1 of a's numerator and b's denominator and g2
\* of b's numerator and a's denominator taken out before multiplying.
MulReduced(a, b, g1, g2) ==
    Frac((a[1] \div g1) * (b[1] \div g2), (a[2] \div g2) * (b[2] \div g1))

RMul(a, b) == MulReduced(a, b, GCD(Abs(a[1]), b[2]), GCD(Abs(b[1]), a[2]))

\* a / b for b > 0 (the only divisions of the program: by positive constants
\* and by a sum of squares already tested to be positive).
RDiv(a, b) == RMul(a, <<b[2], b[1]>>)

\* a + b over the least common denominator, g the denominators' divisor.
AddOver(a, b, g) ==
    Frac(a[1] * (b[2] \div g) + b[1] * (a[2] \div g), (a[2] \div g) * b[2])

RAdd(a, b) == AddOver(a, b, GCD(a[2], b[2]))

RLe(a, b) == a[1] * b[2] <= b[1] * a[2]

RLt(a, b) == a[1] * b[2] < b[1] * a[2]

RMax(a, b) == IF RLt(a, b) THEN b ELSE a

RMin(a, b) == IF RLt(b, a) THEN b ELSE a

RECURSIVE Pow10(_)
Pow10(k) == IF k = 0 THEN 1 ELSE 10 * Pow10(k - 1)

\* round(x, places): the nearest multiple of 10^-places; on an exact tie of
\* the fraction, the neighbour halfUp selects.
\* y, a count of grid steps, to the nearest integer.
Nearest(y) ==
    IF 2 * (y[1] % y[2]) > y[2] \/ (2 * (y[1] % y[2]) = y[2] /\ halfUp)
    THEN (y[1] \div y[2]) + 1
    ELSE y[1] \div y[2]

RoundOnGrid(x, p) == Frac(Nearest(RMul(x, R(p))), p)

Round(x, places) == RoundOnGrid(x, Pow10(places))

\* Python truthiness of a JSON value: None and 0 are falsy.
Truthy(v) == v # Null /\ (IsNumber(v) => v[1] # 0)

Digits == <<"0", "1", "2", "3", "4", "5", "6", "7", "8", "9">>

RECURSIVE DecStr(_)
DecStr(n) ==
    IF n < 10 THEN Digits[n + 1] ELSE DecStr(n \div 10) \o Digits[(n % 10) + 1]

\* str(x) of an identifier: a non-negative integer, or None.
Str(v) == IF v = Null THEN "None" ELSE DecStr(v[1])

(***************************************************************************)
(* Module constants.                                                       *)
(***************************************************************************)
PER_PAGE == 200

DEFAULT_SCORE_SCALE == <<7, 2>>

SCORE_SCALE_MIN == <<1, 2>>

SCORE_SCALE_MAX == <<6, 1>>

SCORE_INTENSITY_REF_HR == <<250, 1>>

SCORE_BASELINE_MAX_HR == SCORE_INTENSITY_REF_HR

SCORE_MAX_HR_MIN_FACTOR == <<17, 20>>

SCORE_MAX_HR_MAX_FACTOR == <<5, 4>>

(***************************************************************************)
(* compute_score_base, fit_score_scale, estimate_exertion.                 *)
(***************************************************************************)
\* Fault variant of compute_score_base: the guard tests < 0, not <= 0.
compute_score_base_zero_ok(avg_hr, max_hr, elapsed_time_min) ==
    IF avg_hr = Null \/ max_hr = Null \/ elapsed_time_min = Null THEN Null
    ELSE IF RLt(avg_hr, R(0)) \/ RLt(max_hr, R(0)) \/ RLt(elapsed_time_min, R(0))
    THEN Null
    ELSE LET intensity == RDiv(avg_hr, SCORE_INTENSITY_REF_HR)
             integrated == RMul(intensity, RDiv(elapsed_time_min, R(60)))
             factor == RMax(SCORE_MAX_HR_MIN_FACTOR,
                            RMin(SCORE_MAX_HR_MAX_FACTOR,
                                 RDiv(max_hr, SCORE_BASELINE_MAX_HR)))
         IN  RMul(integrated, factor)

compute_score_base(avg_hr, max_hr, elapsed_time_min) ==
    IF avg_hr = Null \/ max_hr = Null \/ elapsed_time_min = Null THEN Null
    ELSE IF RLe(avg_hr, R(0)) \/ RLe(max_hr, R(0)) \/ RLe(elapsed_time_min, R(0))
    THEN Null
    ELSE LET intensity == RDiv(avg_hr, SCORE_INTENSITY_REF_HR)
             integrated == RMul(intensity, RDiv(elapsed_time_min, R(60)))
             factor == RMax(SCORE_MAX_HR_MIN_FACTOR,
                            RMin(SCORE_MAX_HR_MAX_FACTOR,
                                 RDiv(max_hr, SCORE_BASELINE_MAX_HR)))
         IN  RMul(integrated, factor)

\* Fault variant of ActualOf: the self-reported exertion takes priority.
ActualOfReportedFirst(activity) ==
    IF activity.reported_exertion = Null THEN activity.exertion
    ELSE activity.reported_exertion

\* The value fit_score_scale regresses against: the manual exertion, the
\* self-reported one when that is None.
ActualOf(activity) ==
    IF activity.exertion = Null THEN activity.reported_exertion
    ELSE activity.exertion

\* One turn of the loop of fit_score_scale: the sums after this activity.
Accumulate(acc, actual, base) ==
    IF ~IsNumber(actual) THEN acc
    ELSE IF base = Null THEN acc
    ELSE [sum_x2 |-> RAdd(acc.sum_x2, RMul(base, base)),
          sum_xy |-> RAdd(acc.sum_xy, RMul(base, actual)),
          sample_count |-> acc.sample_count + 1]

FitStep(acc, activity) ==
    Accumulate(acc, ActualOf(activity),
               compute_score_base(activity.avg_hr, activity.max_hr,
                                  activity.elapsed_time_min))

\* The loop of fit_score_scale from activity k on, the sums so far in acc.
RECURSIVE FitLoop(_, _, _)
FitLoop(activities, k, acc) ==
    IF k > Len(activities) THEN acc
    ELSE FitLoop(activities, k + 1, FitStep(acc, activities[k]))

FitStart == [sum_x2 |-> R(0), sum_xy |-> R(0), sample_count |-> 0]

\* Fault variant of FitResult: the fitted scale is returned unclamped.
FitResultUnclamped(scale) ==
    IF RLe(scale, R(0)) THEN DEFAULT_SCORE_SCALE ELSE scale

\* Lines 165-167 of fit_score_scale: what it returns for sum_xy / sum_x2.
FitResult(scale) ==
    IF RLe(scale, R(0)) THEN DEFAULT_SCORE_SCALE
    ELSE RMax(SCORE_SCALE_MIN, RMin(SCORE_SCALE_MAX, scale))

\* Lines 162-167 of fit_score_scale: what it returns for the sums of the loop.
FitFromSums(acc) ==
    IF acc.sample_count < 2 \/ RLe(acc.sum_x2, R(0)) THEN DEFAULT_SCORE_SCALE
    ELSE FitResult(RDiv(acc.sum_xy, acc.sum_x2))

fit_score_scale(activities) == FitFromSums(FitLoop(activities, 1, FitStart))

\* Lines 177-181 of estimate_exertion.
ScoreOf(base, scale) ==
    IF base = Null THEN Null
    ELSE Round(RMax(R(0), RMin(R(5), RMul(base, scale))), 2)

estimate_exertion(avg_hr, max_hr, elapsed_time_min, scale) ==
    ScoreOf(compute_score_base(avg_hr, max_hr, elapsed_time_min), scale)

(***************************************************************************)
(* enrich_activity.  A raw activity is a record over RawKeys; a key the    *)
(* provider left out reads as None through dict.get, so it is Null here.   *)
(***************************************************************************)
DetailKeys == {"average_heartrate", "max_heartrate", "perceived_exertion"}

needs_details(activity) == \E key \in DetailKeys : activity[key] = Null

\* Fault variant of CallsDetails: the identifier is not looked at.
CallsDetailsWithoutId(activity) == needs_details(activity)

\* Whether enrich_activity reaches the call of get_activity_details.
CallsDetails(activity) == needs_details(activity) /\ Truthy(activity.id)

\* Fault variant of MergeDetails: a detail value replaces a present one.
MergeDetailsOverwrite(activity, details) ==
    [key \in DOMAIN activity |->
        IF key \in DetailKeys /\ details[key] # Null
        THEN details[key]
        ELSE activity[key]]

\* The second loop of enrich_activity, given the record the lookup returned.
MergeDetails(activity, details) ==
    [key \in DOMAIN activity |->
        IF key \in DetailKeys /\ activity[key] = Null /\ details[key] # Null
        THEN details[key]
        ELSE activity[key]]

enrich_activity(activity, details) ==
    IF ~CallsDetails(activity) THEN activity
    ELSE MergeDetails(activity, details)

(***************************************************************************)
(* load_exertion_overrides.  The decoded file maps each key to an entry    *)
(* [obj, kind, num]: obj says the entry is an object, read through its     *)
(* "exertion" key; kind is the JSON type of the value so reached ("null"   *)
(* also when the object has no such key) and num its value as a number     *)
(* (float(True) is 1.0).                                                   *)
(***************************************************************************)
IsIntOrFloat(entry) == entry.kind \in {"number", "bool"}

load_exertion_overrides(payload) ==
    [key \in {k \in DOMAIN payload : IsIntOrFloat(payload[k])} |-> payload[key].num]

\* overrides.get(key)
OverrideGet(overrides, key) ==
    IF key \in DOMAIN overrides THEN overrides[key] ELSE Null

(***************************************************************************)
(* slim.                                                                   *)
(***************************************************************************)
\* (x or 0)
OrZero(v) == IF Truthy(v) THEN v ELSE R(0)

\* Fault variant of AvgSpeedKmh: "is not None" in place of truthiness.
AvgSpeedKmhNotNone(activity) ==
    IF activity.average_speed # Null
    THEN Round(RMul(activity.average_speed, <<18, 5>>), 2)
    ELSE Null

\* The avg_speed_kmh entry of slim (3.6 is 18/5).
AvgSpeedKmh(activity) ==
    IF Truthy(activity.average_speed)
    THEN Round(RMul(activity.average_speed, <<18, 5>>), 2)
    ELSE Null

slim(activity) ==
    [id |-> activity.id,
     name |-> activity.name,
     type |-> activity.type,
     start_date |-> activity.start_date,
     distance_km |-> Round(RDiv(OrZero(activity.distance), R(1000)), 2),
     moving_time_min |-> Round(RDiv(OrZero(activity.moving_time), R(60)), 1),
     elapsed_time_min |-> Round(RDiv(OrZero(activity.elapsed_time), R(60)), 1),
     total_elevation_gain_m |-> activity.total_elevation_gain,
     avg_hr |-> activity.average_heartrate,
     max_hr |-> activity.max_heartrate,
     reported_exertion |-> activity.perceived_exertion,
     avg_speed_kmh |-> AvgSpeedKmh(activity),
     url |-> IF Truthy(activity.id)
             THEN <<"https://www.strava.com/activities/" \o Str(activity.id)>>
             ELSE Null]

\* The record main appends to slimmed: slim's, with the manual exertion.
\* estimated_exertion is Unset until the second loop of main assigns it.
Unset == <<"unset">>

WithExertion(payload, overrides) ==
    payload @@ [exertion |-> OverrideGet(overrides, Str(payload.id)),
                estimated_exertion |-> Unset]

(***************************************************************************)
(* The exceptions a collaborator raises, and the handlers of main.         *)
(* raise_for_status raises HTTPError with the response attached; any other *)
(* failure (connection, JSON, a missing key) is caught by the last clause. *)
(***************************************************************************)
HTTPError(status, text) == [type |-> "HTTPError", status |-> status, text |-> text]

OtherError(text) == [type |-> "Exception", status |-> 0, text |-> text]

HttpFailures ==
    {HTTPError(401, "401 Client Error"), HTTPError(403, "403 Client Error"),
     HTTPError(500, "500 Server Error")}

\* bool(error.response): requests defines Response.__bool__ as Response.ok,
\* which is False for every status raise_for_status raises on (400..599).
ResponseBool(error) == error.status < 400

AuthMessage ==
    <<"Strava authorization failed. Verify that the refresh token has activity:read_all scope and that the STRAVA_* secrets are valid.">>

\* The error string the except clauses of main hand to write_payload.
ErrorMessage(error) ==
    IF error.type = "HTTPError"
    THEN LET status_code == IF ResponseBool(error) THEN <<error.status>> ELSE Null
         IN  IF status_code \in {<<401>>, <<403>>}
             THEN AuthMessage
             ELSE <<"HTTP error while fetching Strava data: " \o error.text>>
    ELSE <<"Unexpected error while fetching Strava data: " \o error.text>>

\* write_payload: the object dumped to OUTFILE (updated_utc left out).
write_payload(activities, error) == [activities |-> activities, error |-> error]

(***************************************************************************)
(* State.  pc is the position of main; overrides, activities, slimmed and  *)
(* scale are its locals; outfile is the content of OUTFILE (Null: not      *)
(* written); lookups lists the identifiers get_activity_details was called *)
(* with; fitCalls counts the calls of fit_score_scale; caught is the       *)
(* exception an except clause of main caught (Null: none).  fn, inp and    *)
(* out are the function, arguments and result of a call of one function on *)
(* its own (SpecUnit).                                                     *)
(***************************************************************************)
VARIABLES pc, overrides, activities, page, slimmed, scale, outfile, lookups,
          fitCalls, caught, fn, inp, out

vars == <<pc, overrides, activities, page, slimmed, scale, outfile, lookups,
          fitCalls, caught, fn, inp, out, halfUp>>

mainVars == <<overrides, activities, page, slimmed, scale, outfile, lookups,
              fitCalls, caught>>

unitVars == <<fn, inp, out>>

\* Longest activity list a page returns.
MaxBatch == 2

RawBase ==
    [id |-> R(101), name |-> <<"Morning Run">>, type |-> <<"Run">>,
     start_date |-> <<"2024-05-01T06:00:00Z">>, distance |-> R(12345),
     moving_time |-> R(1800), elapsed_time |-> R(3600),
     total_elevation_gain |-> R(40), average_heartrate |-> R(150),
     max_heartrate |-> R(185), perceived_exertion |-> R(6),
     average_speed |-> R(3)]

\* The activities the listing may return: without identifier or with one of
\* two, and complete, without heart rate or without self-reported exertion.
ListedActivities ==
    {[RawBase EXCEPT !.id = i, !.average_heartrate = m[1],
                     !.perceived_exertion = m[2]] :
        i \in {Null, R(101), R(102)},
        m \in {<<R(150), R(6)>>, <<Null, R(6)>>, <<R(150), Null>>}}

RECURSIVE SeqsUpTo(_, _)
SeqsUpTo(S, n) ==
    IF n = 0 THEN {<< >>}
    ELSE LET shorter == SeqsUpTo(S, n - 1)
         IN  shorter \cup {Append(q, x) : q \in {t \in shorter : Len(t) = n - 1}, x \in S}

\* The records get_activity_details may return.
DetailRecords ==
    {[RawBase EXCEPT !.average_heartrate = Null, !.max_heartrate = Null,
                     !.perceived_exertion = Null, !.average_speed = R(5)],
     [RawBase EXCEPT !.average_heartrate = R(250), !.max_heartrate = R(250),
                     !.perceived_exertion = R(2), !.average_speed = R(5)]}

Entry(obj, kind, num) == [obj |-> obj, kind |-> kind, num |-> num]

\* The decoded override files: none (or {}); a bare number and an object with
\* an exertion; a text entry, a boolean and the key "None".
OverridePayloads ==
    {<< >>,
     [k \in {"101", "102"} |->
        IF k = "101" THEN Entry(FALSE, "number", R(7))
        ELSE Entry(TRUE, "number", R(3))],
     [k \in {"101", "None", "102"} |->
        CASE k = "101" -> Entry(FALSE, "text", Null)
          [] k = "None" -> Entry(FALSE, "number", R(8))
          [] k = "102" -> Entry(FALSE, "bool", R(1))]}

Init ==
    /\ pc = "refresh"
    /\ overrides = << >>
    /\ activities = << >>
    /\ page = 1
    /\ slimmed = << >>
    /\ scale = Null
    /\ outfile = Null
    /\ lookups = << >>
    /\ fitCalls = 0
    /\ caught = Null
    /\ halfUp \in BOOLEAN
    /\ fn = "main"
    /\ inp = Null
    /\ out = Null

\* Fault variant of Raise: the handler writes the records built so far.
RaisePartial(error) ==
    /\ caught' = error
    /\ outfile' = write_payload(slimmed, ErrorMessage(error))
    /\ pc' = "done"

\* An exception leaves the try block: the matching except clause writes the
\* error payload and main returns.
Raise(error) ==
    /\ caught' = error
    /\ outfile' = write_payload(<< >>, ErrorMessage(error))
    /\ pc' = "done"

\* load_refresh_token, refresh_access_token (and persist_refresh_token, whose
\* token file no step below reads).
RefreshAccessToken ==
    /\ pc = "refresh"
    /\ \/ /\ pc' = "overrides"
          /\ UNCHANGED <<outfile, caught>>
       \/ \E error \in HttpFailures \cup {OtherError("'STRAVA_REFRESH_TOKEN'")} :
            Raise(error)
    /\ UNCHANGED <<overrides, activities, page, slimmed, scale, lookups, fitCalls>>
    /\ UNCHANGED <<unitVars, halfUp>>

LoadExertionOverrides ==
    /\ pc = "overrides"
    /\ \/ /\ \E payload \in OverridePayloads :
               overrides' = load_exertion_overrides(payload)
          /\ pc' = "fetch"
          /\ UNCHANGED <<outfile, caught>>
       \/ /\ Raise(OtherError("Expecting value: line 1 column 1 (char 0)"))
          /\ UNCHANGED overrides
    /\ UNCHANGED <<activities, page, slimmed, scale, lookups, fitCalls>>
    /\ UNCHANGED <<unitVars, halfUp>>

\* One turn of the loop of get_all_activities.
GetActivitiesPage ==
    /\ pc = "fetch"
    /\ \/ /\ \E batch \in SeqsUpTo(ListedActivities, MaxBatch) :
               /\ activities' = activities \o batch
               /\ IF batch = << >> \/ Len(batch) < PER_PAGE
                  THEN pc' = "enrich" /\ page' = page
                  ELSE pc' = "fetch" /\ page' = page + 1
          /\ UNCHANGED <<outfile, caught>>
       \/ /\ \E error \in HttpFailures \cup {OtherError("Connection aborted")} :
               Raise(error)
          /\ UNCHANGED <<activities, page>>
    /\ UNCHANGED <<overrides, slimmed, scale, lookups, fitCalls>>
    /\ UNCHANGED <<unitVars, halfUp>>

\* One turn of the first loop of main: enrich_activity (which updates the
\* fetched record in place), slim, the override lookup, the append.
EnrichAndSlim ==
    /\ pc = "enrich"
    /\ Len(slimmed) < Len(activities)
    /\ LET i == Len(slimmed) + 1
           activity == activities[i]
       IN  \/ /\ ~CallsDetails(activity)
              /\ slimmed' = Append(slimmed, WithExertion(slim(activity), overrides))
              /\ UNCHANGED <<activities, lookups, outfile, caught, pc>>
           \/ /\ CallsDetails(activity)
              /\ lookups' = Append(lookups, activity.id)
              /\ \E details \in DetailRecords :
                   LET enriched == enrich_activity(activity, details)
                   IN  /\ activities' = [activities EXCEPT ![i] = enriched]
                       /\ slimmed' = Append(slimmed,
                                            WithExertion(slim(enriched), overrides))
              /\ UNCHANGED <<outfile, caught, pc>>
           \/ /\ CallsDetails(activity)
              /\ lookups' = Append(lookups, activity.id)
              /\ \E error \in HttpFailures \cup {OtherError("Read timed out")} :
                   Raise(error)
              /\ UNCHANGED <<activities, slimmed>>
    /\ UNCHANGED <<overrides, page, scale, fitCalls>>
    /\ UNCHANGED <<unitVars, halfUp>>

\* Fault variant of FitScoreScale: the fit runs inside the first loop, on the
\* records appended so far.
FitScoreScaleEarly ==
    /\ pc = "enrich"
    /\ scale' = fit_score_scale(slimmed)
    /\ fitCalls' = fitCalls + 1
    /\ pc' = "estimate"
    /\ UNCHANGED <<overrides, activities, page, slimmed, outfile, lookups, caught>>
    /\ UNCHANGED <<unitVars, halfUp>>

\* The call of fit_score_scale, once the first loop of main has ended.
FitScoreScale ==
    /\ pc = "enrich"
    /\ Len(slimmed) = Len(activities)
    /\ scale' = fit_score_scale(slimmed)
    /\ fitCalls' = fitCalls + 1
    /\ pc' = "estimate"
    /\ UNCHANGED <<overrides, activities, page, slimmed, outfile, lookups, caught>>
    /\ UNCHANGED <<unitVars, halfUp>>

\* The records of slimmed the second loop of main has not reached yet.
Unscored == {k \in 1..Len(slimmed) : slimmed[k].estimated_exertion = Unset}

\* One turn of the second loop of main.
EstimateExertion ==
    /\ pc = "estimate"
    /\ Unscored # {}
    /\ LET k == CHOOSE m \in Unscored : \A n \in Unscored : m <= n
           payload == slimmed[k]
       IN  slimmed' = [slimmed EXCEPT ![k].estimated_exertion =
                          estimate_exertion(payload.avg_hr, payload.max_hr,
                                            payload.elapsed_time_min, scale)]
    /\ UNCHANGED <<pc, overrides, activities, page, scale, outfile, lookups,
                   fitCalls, caught>>
    /\ UNCHANGED <<unitVars, halfUp>>

WritePayload ==
    /\ pc = "estimate"
    /\ Unscored = {}
    /\ outfile' = write_payload(slimmed, Null)
    /\ pc' = "done"
    /\ UNCHANGED <<overrides, activities, page, slimmed, scale, lookups, fitCalls,
                   caught>>
    /\ UNCHANGED <<unitVars, halfUp>>

Next ==
    \/ RefreshAccessToken
    \/ LoadExertionOverrides
    \/ GetActivitiesPage
    \/ EnrichAndSlim
    \/ FitScoreScale
    \/ EstimateExertion
    \/ WritePayload

Spec == Init /\ [][Next]_vars

(***************************************************************************)
(* The functions called on their own, on arguments drawn from the sets     *)
(* below: fn names the function, inp its arguments, out what it returned.  *)
(***************************************************************************)
\* Longest list handed to fit_score_scale.
MaxFit == 3

AvgHrValues == {Null, R(-150), R(0), R(125), R(150), R(250)}

MaxHrValues == {Null, R(-185), R(0), R(185), R(250), R(400)}

ElapsedMinValues == {Null, R(-30), R(0), R(30), R(60), <<333, 10>>}

ScaleValues ==
    {R(-1), R(0), SCORE_SCALE_MIN, <<12, 5>>, DEFAULT_SCORE_SCALE, SCORE_SCALE_MAX, R(100)}

EstimateInputs ==
    [avg_hr : AvgHrValues, max_hr : MaxHrValues,
     elapsed_time_min : ElapsedMinValues, scale : ScaleValues]

\* Normalized activities, as far as fit_score_scale and estimate_exertion read
\* them.  Heart rates and duration: two usable triples (base scores 51/100 and
\* 2) and two unusable ones (a null; a zero and a negative).  Manual and
\* self-reported exertion: none, self-reported only, both, a negative and a
\* zero manual value, a self-reported text.
UsableTriples == {<<R(150), R(185), R(60)>>, <<R(250), R(250), R(120)>>}

UnusableTriples == {<<Null, R(185), R(60)>>, <<R(150), R(0), R(-30)>>}

ExertionPairs ==
    {<<Null, Null>>, <<Null, R(7)>>, <<R(1), R(9)>>, <<R(-3), Null>>,
     <<R(0), R(7)>>, <<Null, Text>>}

FitActivity(t, e) ==
    [avg_hr |-> t[1], max_hr |-> t[2], elapsed_time_min |-> t[3],
     exertion |-> e[1], reported_exertion |-> e[2]]

FitActivities ==
    {FitActivity(t, e) : t \in UsableTriples, e \in ExertionPairs}
    \cup {FitActivity(t, <<Null, R(7)>>) : t \in UnusableTriples}

\* Raw activities for enrich_activity, and what the lookup answers if it is
\* made: the detail record, or (fails) an exception of get_activity_details.
EnrichActivities ==
    {[RawBase EXCEPT !.id = i, !.average_heartrate = a, !.max_heartrate = m,
                     !.perceived_exertion = p] :
        i \in {Null, R(0), R(101)}, a \in {Null, R(0), R(150)},
        m \in {Null, R(185)}, p \in {Null, R(6)}}

EnrichDetails ==
    {[RawBase EXCEPT !.name = <<"Detail">>, !.average_speed = R(5),
                     !.average_heartrate = a, !.max_heartrate = m,
                     !.perceived_exertion = p] :
        a \in {Null, R(140)}, m \in {Null, R(190)}, p \in {Null, R(3)}}

EnrichInputs ==
    [activity : EnrichActivities, details : EnrichDetails, fails : {FALSE}]
    \cup [activity : EnrichActivities, details : {RawBase}, fails : {TRUE}]

SlimActivities ==
    {[RawBase EXCEPT !.id = i, !.average_speed = v, !.distance = d,
                     !.elapsed_time = t] :
        i \in {Null, R(0), R(101)},
        v \in {Null, R(0), R(-3), R(3), <<277, 100>>},
        d \in {Null, R(12345)}, t \in {Null, R(0), R(2000)}}

UnitInit ==
    /\ pc = "call"
    /\ overrides = << >>
    /\ activities = << >>
    /\ page = 1
    /\ slimmed = << >>
    /\ scale = Null
    /\ outfile = Null
    /\ lookups = << >>
    /\ fitCalls = 0
    /\ caught = Null
    /\ halfUp \in BOOLEAN
    /\ out = Null
    /\ \/ fn = "estimate_exertion" /\ inp \in EstimateInputs
       \/ fn = "fit_score_scale" /\ inp \in SeqsUpTo(FitActivities, MaxFit)
       \/ fn = "enrich_activity" /\ inp \in EnrichInputs
       \/ fn = "slim" /\ inp \in SlimActivities

\* estimate_exertion, with the base score its first line computes.
CallEstimateExertion ==
    /\ pc = "call" /\ fn = "estimate_exertion"
    /\ out' = [base |-> compute_score_base(inp.avg_hr, inp.max_hr,
                                           inp.elapsed_time_min),
               estimated |-> estimate_exertion(inp.avg_hr, inp.max_hr,
                                               inp.elapsed_time_min, inp.scale)]
    /\ pc' = "returned"
    /\ UNCHANGED <<fn, inp>>
    /\ UNCHANGED <<mainVars, halfUp>>

\* The second loop of main on a list: estimate_exertion on each activity with
\* the scale fitted.
ScoredWith(batch, fitted) ==
    [scale |-> fitted,
     estimated |-> [k \in 1..Len(batch) |->
                       estimate_exertion(batch[k].avg_hr, batch[k].max_hr,
                                         batch[k].elapsed_time_min, fitted)]]

\* fit_score_scale on the list, then estimate_exertion on each of its
\* activities with the scale returned, as lines 240-247 of main do.
CallFitScoreScale ==
    /\ pc = "call" /\ fn = "fit_score_scale"
    /\ out' = ScoredWith(inp, fit_score_scale(inp))
    /\ pc' = "returned"
    /\ UNCHANGED <<fn, inp>>
    /\ UNCHANGED <<mainVars, halfUp>>

\* enrich_activity: the record it leaves, how often it called
\* get_activity_details, and whether that call's exception left it.
EnrichResult(activity, details, fails) ==
    IF ~CallsDetails(activity)
    THEN [activity |-> enrich_activity(activity, details), calls |-> 0,
          raised |-> FALSE]
    ELSE IF fails
    THEN [activity |-> activity, calls |-> 1, raised |-> TRUE]
    ELSE [activity |-> enrich_activity(activity, details), calls |-> 1,
          raised |-> FALSE]

CallEnrichActivity ==
    /\ pc = "call" /\ fn = "enrich_activity"
    /\ out' = EnrichResult(inp.activity, inp.details, inp.fails) @@ [again |-> Null]
    /\ pc' = "returned"
    /\ UNCHANGED <<fn, inp>>
    /\ UNCHANGED <<mainVars, halfUp>>

\* enrich_activity once more on the record the first call left, the lookup
\* answering as before.
CallEnrichAgain ==
    /\ pc = "returned" /\ fn = "enrich_activity"
    /\ ~out.raised
    /\ out' = [out EXCEPT !.again = EnrichResult(out.activity, inp.details, inp.fails)]
    /\ pc' = "repeated"
    /\ UNCHANGED <<fn, inp>>
    /\ UNCHANGED <<mainVars, halfUp>>

CallSlim ==
    /\ pc = "call" /\ fn = "slim"
    /\ out' = slim(inp)
    /\ pc' = "returned"
    /\ UNCHANGED <<fn, inp>>
    /\ UNCHANGED <<mainVars, halfUp>>

UnitNext ==
    \/ CallEstimateExertion
    \/ CallFitScoreScale
    \/ CallEnrichActivity
    \/ CallEnrichAgain
    \/ CallSlim

SpecUnit == UnitInit /\ [][UnitNext]_vars

(***************************************************************************)
(* Properties.                                                             *)
(***************************************************************************)
InRange(v, lo, hi) == RLe(lo, v) /\ RLe(v, hi)

\* C1: for every list of normalized activities, the scale fit_score_scale
\* returns lies in [0.5, 6.0] (the default 3.5 being inside), and every value
\* estimate_exertion produces with that scale is null or lies in [0, 5].
C1_ScaleAndEstimatesBounded ==
    (fn = "fit_score_scale" /\ pc # "call") =>
        /\ InRange(out.scale, <<1, 2>>, R(6))
        /\ InRange(DEFAULT_SCORE_SCALE, <<1, 2>>, R(6))
        /\ \A k \in DOMAIN out.estimated :
              out.estimated[k] = Null \/ InRange(out.estimated[k], R(0), R(5))

\* A three-activity list whose fit is clamped to 6.0, with an estimate
\* clamped to 5 and one inside the range (0.51 * 6 = 3.06).
C1_Witness ==
    /\ fn = "fit_score_scale" /\ pc = "returned"
    /\ Len(inp) = 3
    /\ out.scale = R(6)
    /\ \E k \in DOMAIN out.estimated : out.estimated[k] = R(5)
    /\ \E k \in DOMAIN out.estimated : out.estimated[k] = <<153, 50>>

Unusable(v) == v = Null \/ RLe(v, R(0))

\* C2: compute_score_base returns null exactly when one of avg_hr, max_hr,
\* elapsed_time_min is null, zero or negative; estimate_exertion returns null
\* in exactly those cases, whatever the scale, and a number otherwise.
C2_NullIffUnusableInput ==
    (fn = "estimate_exertion" /\ pc = "returned") =>
        LET unusable == \/ Unusable(inp.avg_hr)
                        \/ Unusable(inp.max_hr)
                        \/ Unusable(inp.elapsed_time_min)
        IN  /\ (out.base = Null) <=> unusable
            /\ (out.estimated = Null) <=> unusable
            /\ ~unusable => IsNumber(out.base) /\ IsNumber(out.estimated)

\* Heart rates present and positive, a duration of zero: null, at a
\* non-default scale.
C2_Witness ==
    /\ fn = "estimate_exertion" /\ pc = "returned"
    /\ inp.avg_hr = R(150) /\ inp.max_hr = R(185)
    /\ inp.elapsed_time_min = R(0)
    /\ inp.scale = R(6)
    /\ out.base = Null /\ out.estimated = Null

\* The calibration samples of a list: the positions whose base score is
\* computable and whose actual value (the manual exertion when non-null, the
\* self-reported one only otherwise) is a number.
C3_Base(a) == compute_score_base(a.avg_hr, a.max_hr, a.elapsed_time_min)

C3_Actual(a) == IF a.exertion # Null THEN a.exertion ELSE a.reported_exertion

C3_Samples(batch) ==
    {k \in 1..Len(batch) : C3_Base(batch[k]) # Null /\ IsNumber(C3_Actual(batch[k]))}

RECURSIVE C3_SumX2(_, _)
C3_SumX2(batch, S) ==
    IF S = {} THEN R(0)
    ELSE LET k == CHOOSE m \in S : TRUE
         IN  RAdd(RMul(C3_Base(batch[k]), C3_Base(batch[k])),
                  C3_SumX2(batch, S \ {k}))

RECURSIVE C3_SumXY(_, _)
C3_SumXY(batch, S) ==
    IF S = {} THEN R(0)
    ELSE LET k == CHOOSE m \in S : TRUE
         IN  RAdd(RMul(C3_Base(batch[k]), C3_Actual(batch[k])),
                  C3_SumXY(batch, S \ {k}))

C3_Clamp(ratio) ==
    IF RLe(ratio, R(0)) THEN <<7, 2>>
    ELSE IF RLt(ratio, <<1, 2>>) THEN <<1, 2>>
    ELSE IF RLt(R(6), ratio) THEN R(6)
    ELSE ratio

C3_Fit(n, sum_x2, sum_xy) ==
    IF n < 2 THEN <<7, 2>>
    ELSE IF RLe(sum_x2, R(0)) THEN <<7, 2>>
    ELSE C3_Clamp(RDiv(sum_xy, sum_x2))

C3_FitOver(batch, S) ==
    C3_Fit(Cardinality(S), C3_SumX2(batch, S), C3_SumXY(batch, S))

C3_Expected(batch) == C3_FitOver(batch, C3_Samples(batch))

\* C3: fit_score_scale takes as samples exactly the activities with a
\* computable base score and a known actual value (manual exertion first,
\* self-reported otherwise); it returns 3.5 with fewer than 2 samples, with a
\* sum of squared bases <= 0 or with sum_xy / sum_x2 <= 0, and otherwise
\* sum_xy / sum_x2 clamped to [0.5, 6.0].
C3_FitIsClampedLeastSquares ==
    (fn = "fit_score_scale" /\ pc # "call") => out.scale = C3_Expected(inp)

\* Two samples of base 2, one with manual 1 and self-reported 9, one with
\* self-reported 7 only: (2*1 + 2*7) / (4 + 4) = 2, inside the clamp.
C3_Witness ==
    /\ fn = "fit_score_scale" /\ pc = "returned"
    /\ Cardinality(C3_Samples(inp)) = 2
    /\ \E k \in C3_Samples(inp) :
          inp[k].exertion = R(1) /\ inp[k].reported_exertion = R(9)
    /\ \E k \in C3_Samples(inp) :
          inp[k].exertion = Null /\ inp[k].reported_exertion = R(7)
    /\ out.scale = R(2)

Range(q) == {q[k] : k \in 1..Len(q)}

\* What C4 says of the order of the stages: fit_score_scale runs only once
\* every fetched activity is enriched, normalized and override-resolved; no
\* estimate exists before it has returned; every estimate uses its one scale.
C4_Order ==
    /\ fitCalls >= 1 =>
          /\ pc \in {"estimate", "done"}
          /\ Len(slimmed) = Len(activities)
          /\ \A k \in 1..Len(activities) :
                /\ CallsDetails(activities[k]) => activities[k].id \in Range(lookups)
                /\ [slimmed[k] EXCEPT !.estimated_exertion = Unset]
                      = WithExertion(slim(activities[k]), overrides)
    /\ \A k \in 1..Len(slimmed) :
          slimmed[k].estimated_exertion # Unset =>
             /\ fitCalls = 1
             /\ scale # Null
             /\ slimmed[k].estimated_exertion
                   = estimate_exertion(slimmed[k].avg_hr, slimmed[k].max_hr,
                                       slimmed[k].elapsed_time_min, scale)

\* C4 as stated: in every run of main fit_score_scale is invoked exactly
\* once, only after every fetched activity is enriched, normalized and
\* override-resolved; no estimate is computed before it returns; every
\* activity is scored with that one scale.
C4_AsStated ==
    /\ pc = "done" => fitCalls = 1
    /\ C4_Order

\* C4 (amended): fit_score_scale is invoked at most once in a run, and exactly
\* once in every run that ends without a collaborator failure; it is invoked
\* only after every fetched activity is enriched, normalized and
\* override-resolved; no estimate is computed before it returns; every
\* activity is scored with that one scale.
C4_FitOnceAfterFirstLoop ==
    /\ fitCalls <= 1
    /\ (pc = "done" /\ caught = Null) => fitCalls = 1
    /\ C4_Order

\* A finished run over two activities, one of them enriched by a lookup,
\* fitted to a scale other than the default and both scored with it.
C4_Witness ==
    /\ pc = "done" /\ caught = Null
    /\ fitCalls = 1
    /\ Len(slimmed) = 2
    /\ Len(lookups) >= 1
    /\ scale # DEFAULT_SCORE_SCALE
    /\ \A k \in 1..2 : IsNumber(slimmed[k].estimated_exertion)

\* C5: enrich_activity changes no field that was non-null before the call:
\* only average_heartrate, max_heartrate and perceived_exertion, and only
\* where they were null, may be filled (with the detail record's value); and a
\* second merge with the same detail record changes nothing further.
C5_EnrichFillsOnlyNulls ==
    (fn = "enrich_activity" /\ pc # "call") =>
        /\ DOMAIN out.activity = DOMAIN inp.activity
        /\ \A key \in DOMAIN inp.activity :
              /\ inp.activity[key] # Null => out.activity[key] = inp.activity[key]
              /\ key \notin DetailKeys => out.activity[key] = inp.activity[key]
              /\ out.activity[key] # inp.activity[key] =>
                    out.activity[key] = inp.details[key]
        /\ pc = "repeated" => out.again.activity = out.activity

\* A record with a heart rate and no exertion, a detail record with both:
\* the heart rate is kept, the exertion filled, the second merge a no-op.
C5_Witness ==
    /\ fn = "enrich_activity" /\ pc = "repeated"
    /\ inp.activity.average_heartrate = R(150)
    /\ inp.activity.perceived_exertion = Null
    /\ inp.details.average_heartrate = R(140)
    /\ inp.details.perceived_exertion = R(3)
    /\ out.calls = 1
    /\ out.activity.average_heartrate = R(150)
    /\ out.activity.perceived_exertion = R(3)
    /\ out.again.activity = out.activity

\* C6: enrich_activity calls get_activity_details if and only if one of
\* average heart rate, max heart rate, self-reported exertion is null and the
\* record has a valid (non-null, non-zero) identifier; otherwise it makes no
\* lookup and returns the record unchanged.
C6_LookupIffMissingFieldAndId ==
    (fn = "enrich_activity" /\ pc # "call") =>
        LET a == inp.activity
            missing == \/ a.average_heartrate = Null
                       \/ a.max_heartrate = Null
                       \/ a.perceived_exertion = Null
            hasId == a.id # Null /\ a.id # R(0)
        IN  /\ out.calls \in {0, 1}
            /\ (out.calls = 1) <=> (missing /\ hasId)
            /\ out.calls = 0 => out.activity = a /\ ~out.raised

\* A record without identifier and without heart rate: no lookup.
C6_Witness ==
    /\ fn = "enrich_activity" /\ pc = "returned"
    /\ inp.activity.id = Null
    /\ inp.activity.average_heartrate = Null
    /\ ~inp.fails
    /\ inp.details.average_heartrate = R(140)
    /\ out.calls = 0
    /\ out.activity = inp.activity

\* C7: in every record a successful run writes, exertion is the override
\* mapped to the activity's identifier (as a string key) when the mapping has
\* one and null otherwise (an activity without identifier has none);
\* calibration and estimation leave it alone; and estimated_exertion depends
\* on the overrides only through the fitted scale.
C7_ExertionIsTheOverride ==
    (pc = "done" /\ caught = Null) =>
        \A k \in 1..Len(outfile.activities) :
            LET record == outfile.activities[k]
                mapped == record.id # Null /\ Str(record.id) \in DOMAIN overrides
            IN  /\ record.exertion =
                      IF mapped THEN overrides[Str(record.id)] ELSE Null
                /\ record.estimated_exertion =
                      estimate_exertion(record.avg_hr, record.max_hr,
                                        record.elapsed_time_min, scale)

\* C8 as stated: avg_speed_kmh is null whenever average_speed is zero,
\* negative or absent, and speed x 3.6 rounded to 2 decimals only otherwise.
C8_AsStated ==
    (fn = "slim" /\ pc = "returned") =>
        IF inp.average_speed = Null \/ RLe(inp.average_speed, R(0))
        THEN out.avg_speed_kmh = Null
        ELSE out.avg_speed_kmh = Round(RMul(inp.average_speed, <<18, 5>>), 2)

\* C8 (amended): avg_speed_kmh is null whenever average_speed is zero or
\* absent, and speed x 3.6 rounded to 2 decimals otherwise, a negative speed
\* included.
C8_SpeedNullIffZeroOrAbsent ==
    (fn = "slim" /\ pc = "returned") =>
        IF inp.average_speed = Null \/ inp.average_speed = R(0)
        THEN out.avg_speed_kmh = Null
        ELSE out.avg_speed_kmh = Round(RMul(inp.average_speed, <<18, 5>>), 2)

\* A speed of -3 m/s comes out as -10.8 km/h.
C8_Witness ==
    /\ fn = "slim" /\ pc = "returned"
    /\ inp.average_speed = R(-3)
    /\ out.avg_speed_kmh = <<-54, 5>>

\* C9: whenever a collaborator call fails (token refresh, a page fetch, a
\* detail lookup at any position, loading the override file), the run ends
\* without raising and the payload written has an empty activity list and a
\* non-null error string: no partially processed record is written.
C9_FailureWritesEmptyErrorPayload ==
    /\ caught # Null =>
          /\ pc = "done"
          /\ outfile # Null
          /\ outfile.activities = << >>
          /\ outfile.error # Null
    /\ (pc = "done" /\ caught = Null) =>
          /\ outfile.error = Null
          /\ outfile.activities = slimmed
          /\ Len(slimmed) = Len(activities)

\* The detail lookup of the second activity fails after the first one was
\* processed.
C9_Witness ==
    /\ caught # Null
    /\ Len(activities) = 2
    /\ Len(slimmed) = 1
    /\ Len(lookups) >= 1
    /\ outfile.activities = << >>
    /\ outfile.error # Null

\* C10: when the failing request answered 401 or 403, the error written is
\* the fixed authorization-failure message; the generic "HTTP error while
\* fetching Strava data" message is written only for other statuses.
C10_AuthMessageOn401And403 ==
    (caught # Null /\ caught.type = "HTTPError") =>
        IF caught.status \in {401, 403}
        THEN outfile.error = AuthMessage
        ELSE outfile.error =
                <<"HTTP error while fetching Strava data: " \o caught.text>>

====
